---- MODULE Spec2Model ----
(***************************************************************************)
(* BulkChat: the Streamlit chat console of src/streamlit.py.               *)
(*                                                                         *)
(* One script run (a Streamlit rerun) executes the file top to bottom:     *)
(* session-state initialisation, the /status/ call, the sidebar (Process   *)
(* PDFs handler, the /modes/ call and the mode selector), the transcript   *)
(* display and the chat-input handler.  Every HTTP call is split in two    *)
(* steps, the request leaving and the blocking call returning, so that the *)
(* requests in flight are observable.  An exception that no except clause  *)
(* catches ends the run (pc = "done", exc names it).                       *)
(***************************************************************************)
EXTENDS Integers, Sequences, FiniteSets, TLC

(***************************************************************************)
(* Bounds of the model.                                                    *)
(***************************************************************************)
\* Chat submits are accepted while the transcript has room for both entries.
MaxMsgs == 4

(***************************************************************************)
(* JSON values as the json module decodes them: dict, list, str, None.     *)
(***************************************************************************)
JStr(s) == [type |-> "string", str |-> s, items |-> <<>>, fields |-> <<>>]
JNull == [type |-> "null", str |-> "", items |-> <<>>, fields |-> <<>>]
JArr(xs) == [type |-> "array", str |-> "", items |-> xs, fields |-> <<>>]
JObj(f) == [type |-> "object", str |-> "", items |-> <<>>, fields |-> f]
EmptyObj == JObj(<<>>)

\* The result of evaluating a Python expression: the exception it raises
\* ("" when it raises none) and its value.
Ok(v) == [exc |-> "", val |-> v]
Raise(e) == [exc |-> e, val |-> JNull]

IsSubstring(k, s) ==
  \/ k = ""
  \/ \E i \in 1..Len(s) : \E j \in i..Len(s) : SubSeq(s, i, j) = k

\* `k in v` for a str k: key test on a dict, element test on a list,
\* substring test on a str, TypeError on None.
PyIn(k, v) ==
  CASE v.type = "object" -> [exc |-> "", val |-> k \in DOMAIN v.fields]
    [] v.type = "array" -> [exc |-> "", val |-> \E i \in 1..Len(v.items) : v.items[i] = JStr(k)]
    [] v.type = "string" -> [exc |-> "", val |-> IsSubstring(k, v.str)]
    [] OTHER -> [exc |-> "TypeError", val |-> FALSE]

\* `v[k]` for a str k.
PyIndex(v, k) ==
  CASE v.type = "object" -> IF k \in DOMAIN v.fields THEN Ok(v.fields[k]) ELSE Raise("KeyError")
    [] OTHER -> Raise("TypeError")

\* `v.get(k, d)`: only a dict has the method.
PyGet(v, k, d) ==
  CASE v.type = "object" -> Ok(IF k \in DOMAIN v.fields THEN v.fields[k] ELSE d)
    [] OTHER -> Raise("AttributeError")

\* The keys of a dict, as a sequence of str values.
RECURSIVE KeySeq(_)
KeySeq(ks) ==
  IF ks = {} THEN <<>>
  ELSE LET k == CHOOSE x \in ks : TRUE IN <<JStr(k)>> \o KeySeq(ks \ {k})

\* The elements a for loop draws from v: a list's items, a dict's keys, a
\* str's characters; None is not iterable.
PyIter(v) ==
  CASE v.type = "array" -> [exc |-> "", items |-> v.items]
    [] v.type = "string" -> [exc |-> "", items |-> [i \in 1..Len(v.str) |-> JStr(SubSeq(v.str, i, i))]]
    [] v.type = "object" -> [exc |-> "", items |-> KeySeq(DOMAIN v.fields)]
    [] OTHER -> [exc |-> "TypeError", items |-> <<>>]

\* str(v) as an f-string formats it.
PyStr(v) ==
  CASE v.type = "string" -> v.str
    [] v.type = "null" -> "None"
    [] v.type = "array" /\ v.items = <<>> -> "[]"
    [] OTHER -> "{}"

(***************************************************************************)
(* The remote API.  A call ends in a transport failure, an HTTP error      *)
(* status (raise_for_status), a body that is not JSON, or a JSON body.     *)
(***************************************************************************)
Transport == [kind |-> "transport", body |-> JNull]
HttpError == [kind |-> "http", body |-> JNull]
Undecodable == [kind |-> "undecodable", body |-> JNull]
Json(b) == [kind |-> "json", body |-> b]
Failures == {Transport, HttpError, Undecodable}

\* str(e) of the RequestException a failed call raises.
ExcText(o) ==
  CASE o.kind = "transport" -> "Connection refused"
    [] o.kind = "http" -> "500 Server Error"
    [] OTHER -> "Expecting value"

ErrorResult(msg) == JObj("status" :> JStr("error") @@ "message" :> JStr(msg))

(***************************************************************************)
(* The four API wrappers (lines 10-63).  response.json() fails with        *)
(* requests.exceptions.JSONDecodeError, which is a RequestException, so    *)
(* `except RequestException` catches a body that is not JSON as well.      *)
(***************************************************************************)
\* `not files`: None and the empty list are both falsy.
PyFalsy(files) == files.none \/ files.names = {}
FileList(names) == [none |-> FALSE, names |-> names]
NoneFiles == [none |-> TRUE, names |-> {}]

\* What a try block guarded by `except RequestException` returns or raises.
CatchRequestException(o) ==
  IF o.kind = "json" THEN Ok(o.body)
  ELSE Ok(ErrorResult("API error: " \o ExcText(o)))

\* upload_pdfs without the test of line 12.
upload_pdfs_unguarded(files, o) ==
  [sent |-> TRUE, res |-> CatchRequestException(o)]

\* upload_pdfs(files): sent tells whether the POST is issued at all.

upload_pdfs(files, o) ==
  IF PyFalsy(files)
  THEN [sent |-> FALSE, res |-> Ok(ErrorResult("No files selected"))]
  ELSE [sent |-> TRUE, res |-> CatchRequestException(o)]

query_rag(o) == CatchRequestException(o)

\* The bare except catches every failure of the call.
check_api_status(o) ==
  IF o.kind = "json" THEN o.body ELSE ErrorResult("API is not available")

Mode(name, description) ==
  JObj("name" :> JStr(name) @@ "description" :> JStr(description))

DefaultModes ==
  JObj("available_modes" :> JArr(<<
         Mode("hybrid", "Combines local and global approaches"),
         Mode("local", "Uses local context for retrieving relevant information"),
         Mode("global", "Uses global context for broader information retrieval"),
         Mode("naive", "Simple text matching without context awareness"),
         Mode("mix", "Mix of different search strategies")>>)
       @@ "default_mode" :> JStr("hybrid"))

\* The fallback of check_api_status pasted into get_available_modes.
get_available_modes_error_result(o) ==
  IF o.kind = "json" THEN o.body ELSE ErrorResult("API is not available")

get_available_modes(o) ==
  IF o.kind = "json" THEN o.body ELSE DefaultModes

(***************************************************************************)
(* What a run renders inline: st.success, st.error, st.warning, st.info    *)
(* and the per-file lines of the upload report (kind, text).               *)
(***************************************************************************)
Shown(kind, text) == [kind |-> kind, text |-> text]
Assistant(content) == [role |-> "assistant", content |-> content]
User(content) == [role |-> "user", content |-> content]

NotReadyText == "Upload and process some PDFs broo!"

\* line 80: api_status.get("status") == "ready"
ApiReady(api_status) ==
  LET g == PyGet(api_status, "status", JNull)
  IN  [exc |-> g.exc, val |-> g.exc = "" /\ g.val = JStr("ready")]

\* lines 98-100: one line per file result, up to the first one that raises.
RECURSIVE RenderFiles(_, _)
RenderFiles(items, i) ==
  IF i > Len(items) THEN [exc |-> "", shown |-> <<>>]
  ELSE LET st == PyIndex(items[i], "status")
           fl == PyIndex(items[i], "file")
       IN  IF st.exc # "" THEN [exc |-> st.exc, shown |-> <<>>]
           ELSE IF fl.exc # "" THEN [exc |-> fl.exc, shown |-> <<>>]
           ELSE LET rest == RenderFiles(items, i + 1)
                    kind == IF st.val = JStr("success") THEN "file_ok" ELSE "file_fail"
                IN  [exc |-> rest.exc, shown |-> <<Shown(kind, fl.val)>> \o rest.shown]

\* lines 97-100: the report of a successful upload.
UploadDetails(result) ==
  IF ~PyIn("details", result).val THEN [exc |-> "", shown |-> <<>>]
  ELSE LET details == result.fields["details"]
           has == PyIn("results", details)
       IN  IF has.exc # "" THEN [exc |-> has.exc, shown |-> <<>>]
           ELSE IF ~has.val THEN [exc |-> "", shown |-> <<>>]
           ELSE LET rs == PyIndex(details, "results")
                IN  IF rs.exc # "" THEN [exc |-> rs.exc, shown |-> <<>>]
                    ELSE LET it == PyIter(rs.val)
                         IN  IF it.exc # "" THEN [exc |-> it.exc, shown |-> <<>>]
                             ELSE RenderFiles(it.items, 1)

\* lines 94-102: what the Process PDFs handler does with upload_pdfs' result.
ProcessPdfs(r) ==
  IF r.exc # "" THEN [exc |-> r.exc, shown |-> <<>>]
  ELSE LET st == PyGet(r.val, "status", JNull)
       IN  IF st.exc # "" THEN [exc |-> st.exc, shown |-> <<>>]
           ELSE IF st.val = JStr("success")
           THEN LET d == UploadDetails(r.val)
                IN  [exc |-> d.exc,
                     shown |-> <<Shown("success", PyGet(r.val, "message", JNull).val)>> \o d.shown]
           ELSE [exc |-> "",
                 shown |-> <<Shown("error", PyGet(r.val, "message", JStr("Unknown error")).val)>>]

\* line 109: the dict comprehension; a later duplicate name keeps the
\* first one's place.  A dict or list name is unhashable.
RECURSIVE ModeNames(_, _)
ModeNames(items, i) ==
  IF i > Len(items) THEN [exc |-> "", names |-> <<>>]
  ELSE LET nm == PyIndex(items[i], "name")
           ds == PyIndex(items[i], "description")
       IN  IF nm.exc # "" THEN [exc |-> nm.exc, names |-> <<>>]
           ELSE IF ds.exc # "" THEN [exc |-> ds.exc, names |-> <<>>]
           ELSE IF nm.val.type \in {"object", "array"} THEN [exc |-> "TypeError", names |-> <<>>]
           ELSE LET rest == ModeNames(items, i + 1)
                    later == SelectSeq(rest.names, LAMBDA n : n # nm.val)
                IN  [exc |-> rest.exc, names |-> <<nm.val>> \o later]

\* The 0-based position of name in a list that holds it.
IndexOf(names, name) == (CHOOSE i \in 1..Len(names) : names[i] = name) - 1

\* lines 109-117: the options of the selector, the index it preselects and
\* the value st.selectbox returns at that index (None without options).
ModeSelector(modes) ==
  LET am == PyGet(modes, "available_modes", JArr(<<>>))
      none == [exc |-> "", options |-> <<>>, index |-> 0, selected |-> JNull]
  IN  IF am.exc # "" THEN [none EXCEPT !.exc = am.exc]
      ELSE LET it == PyIter(am.val)
           IN  IF it.exc # "" THEN [none EXCEPT !.exc = it.exc]
               ELSE LET mo == ModeNames(it.items, 1)
                        default_mode == PyGet(modes, "default_mode", JStr("hybrid")).val
                    IN  IF mo.exc # "" THEN [none EXCEPT !.exc = mo.exc]
                        ELSE IF default_mode.type \in {"object", "array"}
                        THEN [none EXCEPT !.exc = "TypeError"]
                        ELSE LET isIn == \E i \in 1..Len(mo.names) : mo.names[i] = default_mode
                                 index == IF isIn THEN IndexOf(mo.names, default_mode) ELSE 0
                             IN  [exc |-> "", options |-> mo.names, index |-> index,
                                  selected |-> IF mo.names = <<>> THEN JNull
                                               ELSE mo.names[index + 1]]

\* lines 149-159 without line 159: the error is rendered and not recorded.
ChatReplyErrorNotRecorded(r) ==
  LET none == [exc |-> "", shown |-> <<>>, append |-> <<>>]
  IN  IF r.exc # "" THEN [none EXCEPT !.exc = r.exc]
      ELSE LET has == PyIn("response", r.val)
           IN  IF has.exc # "" THEN [none EXCEPT !.exc = has.exc]
               ELSE IF has.val
               THEN LET result == PyIndex(r.val, "response")
                    IN  IF result.exc # "" THEN [none EXCEPT !.exc = result.exc]
                        ELSE [none EXCEPT !.append = <<Assistant(result.val)>>]
               ELSE LET error_msg == PyGet(r.val, "message", JStr("Unknown error occurred"))
                    IN  IF error_msg.exc # "" THEN [none EXCEPT !.exc = error_msg.exc]
                        ELSE LET text == JStr("Error: " \o PyStr(error_msg.val))
                             IN  [exc |-> "", shown |-> <<Shown("error", text)>>,
                                  append |-> <<>>]

\* lines 149-159 with line 154 recording str(result) in place of result.
ChatReplyAsText(r) ==
  LET none == [exc |-> "", shown |-> <<>>, append |-> <<>>]
  IN  IF r.exc # "" THEN [none EXCEPT !.exc = r.exc]
      ELSE LET has == PyIn("response", r.val)
           IN  IF has.exc # "" THEN [none EXCEPT !.exc = has.exc]
               ELSE IF has.val
               THEN LET result == PyIndex(r.val, "response")
                    IN  IF result.exc # "" THEN [none EXCEPT !.exc = result.exc]
                        ELSE [none EXCEPT !.append = <<Assistant(JStr(PyStr(result.val)))>>]
               ELSE LET error_msg == PyGet(r.val, "message", JStr("Unknown error occurred"))
                    IN  IF error_msg.exc # "" THEN [none EXCEPT !.exc = error_msg.exc]
                        ELSE LET text == JStr("Error: " \o PyStr(error_msg.val))
                             IN  [exc |-> "", shown |-> <<Shown("error", text)>>,
                                  append |-> <<Assistant(text)>>]

\* lines 149-159: what the chat handler does with query_rag's result: the
\* entries it appends and the error it renders.
ChatReply(r) ==
  LET none == [exc |-> "", shown |-> <<>>, append |-> <<>>]
  IN  IF r.exc # "" THEN [none EXCEPT !.exc = r.exc]
      ELSE LET has == PyIn("response", r.val)
           IN  IF has.exc # "" THEN [none EXCEPT !.exc = has.exc]
               ELSE IF has.val
               THEN LET result == PyIndex(r.val, "response")
                    IN  IF result.exc # "" THEN [none EXCEPT !.exc = result.exc]
                        ELSE [none EXCEPT !.append = <<Assistant(result.val)>>]
               ELSE LET error_msg == PyGet(r.val, "message", JStr("Unknown error occurred"))
                    IN  IF error_msg.exc # "" THEN [none EXCEPT !.exc = error_msg.exc]
                        ELSE LET text == JStr("Error: " \o PyStr(error_msg.val))
                             IN  [exc |-> "", shown |-> <<Shown("error", text)>>,
                                  append |-> <<Assistant(text)>>]

(***************************************************************************)
(* The inputs: what the user can do and what the remote API can answer.    *)
(***************************************************************************)
Files == {"a.pdf", "b.pdf"}
Prompts == {"hi"}

FileResult(file, status) == JObj("file" :> JStr(file) @@ "status" :> JStr(status))

StatusOutcomes ==
  Failures \cup
  { Json(JObj("status" :> JStr("ready"))),
    Json(JObj("status" :> JStr("initializing"))),
    Json(EmptyObj),
    Json(JArr(<<>>)) }

UploadOutcomes ==
  Failures \cup
  { Json(JObj("status" :> JStr("success") @@ "message" :> JStr("Processed 2 files")
              @@ "details" :> JObj("results" :> JArr(<<FileResult("a.pdf", "success"),
                                                       FileResult("b.pdf", "error")>>)))),
    Json(JObj("status" :> JStr("success") @@ "message" :> JStr("Processed 0 files"))),
    Json(JObj("status" :> JStr("success")
              @@ "details" :> JObj("results" :> JArr(<<JObj("file" :> JStr("a.pdf"))>>)))),
    Json(JObj("status" :> JStr("success")
              @@ "details" :> JObj("results" :> JArr(<<FileResult("a.pdf", "success"),
                                                       JObj("status" :> JStr("success"))>>)))),
    Json(JObj("status" :> JStr("success") @@ "details" :> JNull)),
    Json(JObj("status" :> JStr("error") @@ "message" :> JStr("No PDFs processed"))),
    Json(JObj("status" :> JStr("error"))),
    Json(JArr(<<>>)) }

ModesOutcomes ==
  Failures \cup
  { Json(JObj("available_modes" :> JArr(<<Mode("naive", "Simple"), Mode("local", "Local")>>)
              @@ "default_mode" :> JStr("local"))),
    Json(JObj("available_modes" :> JArr(<<Mode("mix", "Mixed")>>))),
    Json(EmptyObj),
    Json(JObj("available_modes" :> JArr(<<JObj("description" :> JStr("Nameless"))>>))),
    Json(JNull) }

QueryOutcomes ==
  Failures \cup
  { Json(JObj("response" :> JStr("The answer"))),
    Json(JObj("response" :> JNull @@ "status" :> JStr("success"))),
    Json(JObj("status" :> JStr("error") @@ "message" :> JStr("RAG not initialized"))),
    Json(JObj("message" :> JNull)),
    Json(EmptyObj),
    Json(JArr(<<>>)) }

(***************************************************************************)
(* The state of a session.                                                 *)
(***************************************************************************)
VARIABLES
  messages,        \* st.session_state.messages, the transcript
  hasMessages,     \* "messages" in st.session_state
  uploaded_files,  \* the value of the file uploader (the argument of a direct call)
  pc,              \* where the script run stands
  event,           \* what started the run
  prompt,          \* the text st.chat_input returns in this run
  api_status,      \* line 79
  api_ready,       \* line 80
  result,          \* line 94, what upload_pdfs returned or raised
  modes,           \* line 108
  selector,        \* lines 109-117: options, index, selected_mode
  response,        \* line 149, what query_rag returned or raised
  inflight,        \* the endpoints with a request sent and not yet answered
  reqlog,          \* the endpoints requested in this run, in order
  shown,           \* the messages rendered inline in this run
  exc,             \* the exception that ended the run, "" if none
  answer           \* what the network answers to the latest request of the run

vars == <<messages, hasMessages, uploaded_files, pc, event, prompt,
          api_status, api_ready, result, modes, selector, response,
          inflight, reqlog, shown, exc, answer>>

session == <<messages, hasMessages, uploaded_files>>
locals == <<api_status, api_ready, result, modes, selector, response>>

Unset == Ok(JNull)
NoAnswer == [kind |-> "none", body |-> JNull]
NoSelector == [options |-> <<>>, index |-> 0, selected |-> JNull]

\* A run starts with nothing computed, nothing requested, nothing rendered.
FreshRun ==
  /\ api_status = JNull /\ api_ready = FALSE /\ result = Unset /\ modes = JNull
  /\ selector = NoSelector /\ response = Unset
  /\ inflight = {} /\ reqlog = <<>> /\ shown = <<>> /\ exc = ""

Init ==
  /\ messages = <<>> /\ hasMessages = FALSE
  /\ uploaded_files = FileList({})
  /\ pc = "init" /\ event = "load" /\ prompt = ""
  /\ answer = NoAnswer
  /\ FreshRun

(***************************************************************************)
(* The user, between two runs.  Each interaction reruns the script.        *)
(***************************************************************************)
StartRun(ev, text) ==
  /\ pc = "done"
  /\ pc' = "init" /\ event' = ev /\ prompt' = text
  /\ api_status' = JNull /\ api_ready' = FALSE /\ result' = Unset /\ modes' = JNull
  /\ selector' = NoSelector /\ response' = Unset
  /\ reqlog' = <<>> /\ shown' = <<>> /\ exc' = "" /\ answer' = NoAnswer
  /\ UNCHANGED <<messages, hasMessages, inflight>>

\* lines 86-90: the file uploader's selection changes.
SelectFiles ==
  \E fs \in SUBSET Files :
    /\ uploaded_files' = FileList(fs)
    /\ StartRun("files", "")

\* line 92: the button is disabled while no file is selected.
ClickProcess ==
  /\ ~PyFalsy(uploaded_files)
  /\ StartRun("click", "")
  /\ UNCHANGED uploaded_files

\* line 137: st.chat_input returns the submitted, non-empty text.
SubmitChat ==
  \E p \in Prompts :
    /\ Len(messages) + 2 <= MaxMsgs
    /\ StartRun("submit", p)
    /\ UNCHANGED uploaded_files

(***************************************************************************)
(* The script run.                                                         *)
(***************************************************************************)
Send(endpoint) ==
  /\ inflight' = inflight \cup {endpoint}
  /\ reqlog' = Append(reqlog, endpoint)
  /\ UNCHANGED answer

\* The blocking call returns with the network's answer o.
Recv(endpoint, o) ==
  /\ inflight' = inflight \ {endpoint}
  /\ answer' = o

\* lines 75-76 with the test dropped: the transcript is reset on every run.
InitSessionStateAlways ==
  /\ pc = "init"
  /\ messages' = <<>> /\ hasMessages' = TRUE
  /\ pc' = "status"
  /\ UNCHANGED <<uploaded_files, answer, event, prompt, locals, inflight, reqlog, shown, exc>>

\* lines 75-76
InitSessionState ==
  /\ pc = "init"
  /\ IF ~hasMessages
     THEN messages' = <<>> /\ hasMessages' = TRUE
     ELSE UNCHANGED <<messages, hasMessages>>
  /\ pc' = "status"
  /\ UNCHANGED <<uploaded_files, answer, event, prompt, locals, inflight, reqlog, shown, exc>>

\* line 40: the GET leaves.
SendStatus ==
  /\ pc = "status"
  /\ Send("/status/")
  /\ pc' = "status_wait"
  /\ UNCHANGED <<session, event, prompt, locals, shown, exc>>

\* lines 39-44 and 79-80
RecvStatus ==
  \E o \in StatusOutcomes :
    /\ pc = "status_wait"
    /\ Recv("/status/", o)
    /\ api_status' = check_api_status(o)
    /\ LET ready == ApiReady(api_status')
       IN  /\ api_ready' = ready.val
           /\ exc' = ready.exc
           /\ pc' = IF ready.exc # "" THEN "done"
                    ELSE IF event = "click" THEN "upload" ELSE "modes"
    /\ UNCHANGED <<session, event, prompt, result, modes, selector, response, reqlog, shown>>

\* lines 95-102, then on to the settings
FinishUpload(r) ==
  LET h == ProcessPdfs(r)
  IN  /\ result' = r
      /\ shown' = shown \o h.shown
      /\ exc' = h.exc
      /\ pc' = IF h.exc # "" THEN "done" ELSE "modes"

\* lines 92-94 and 12-19: the handler calls upload_pdfs, which returns at
\* once without files and posts them otherwise.
SendUpload ==
  /\ pc = "upload"
  /\ LET u == upload_pdfs(uploaded_files, Transport)
     IN  IF u.sent
         THEN /\ Send("/upload_pdfs/")
              /\ pc' = "upload_wait"
              /\ UNCHANGED <<result, shown, exc>>
         ELSE /\ FinishUpload(u.res)
              /\ UNCHANGED <<inflight, reqlog, answer>>
  /\ UNCHANGED <<session, event, prompt, api_status, api_ready, modes, selector, response>>

\* lines 19-23 and 95-102
RecvUpload ==
  \E o \in UploadOutcomes :
    /\ pc = "upload_wait"
    /\ Recv("/upload_pdfs/", o)
    /\ FinishUpload(upload_pdfs(uploaded_files, o).res)
    /\ UNCHANGED <<session, event, prompt, api_status, api_ready, modes, selector, response, reqlog>>

\* line 49 reached while the upload of line 19 is still unanswered, as if
\* upload_pdfs did not block.
SendModesUnblocked ==
  /\ pc \in {"modes", "upload_wait"}
  /\ Send("/modes/")
  /\ pc' = "modes_wait"
  /\ UNCHANGED <<session, event, prompt, locals, shown, exc>>

\* line 49
SendModes ==
  /\ pc = "modes"
  /\ Send("/modes/")
  /\ pc' = "modes_wait"
  /\ UNCHANGED <<session, event, prompt, locals, shown, exc>>

\* lines 48-63 and 108-134: the selector, the status line, the transcript.
RecvModes ==
  \E o \in ModesOutcomes :
    /\ pc = "modes_wait"
    /\ Recv("/modes/", o)
    /\ modes' = get_available_modes(o)
    /\ LET sel == ModeSelector(modes')
       IN  /\ selector' = [options |-> sel.options, index |-> sel.index,
                            selected |-> sel.selected]
           /\ exc' = sel.exc
           /\ shown' = IF sel.exc = "" /\ ~api_ready
                       THEN Append(shown, Shown("info", JStr("System is not ready. Upload some PDFs broo.")))
                       ELSE shown
           /\ pc' = IF sel.exc = "" /\ event = "submit" THEN "chat" ELSE "done"
    /\ UNCHANGED <<session, event, prompt, api_status, api_ready, result, response, reqlog>>

\* lines 137-143 and 160-163
ChatNotReady ==
  /\ pc = "chat" /\ ~api_ready
  /\ messages' = messages \o <<User(JStr(prompt)), Assistant(JStr(NotReadyText))>>
  /\ shown' = Append(shown, Shown("warning", JStr(NotReadyText)))
  /\ pc' = "done"
  /\ UNCHANGED <<hasMessages, uploaded_files, answer, event, prompt, locals,
                 inflight, reqlog, exc>>

\* lines 137-149 and 28-31: the user entry, then the POST leaves.
ChatSendQuery ==
  /\ pc = "chat" /\ api_ready
  /\ messages' = Append(messages, User(JStr(prompt)))
  /\ Send("/query/")
  /\ pc' = "query_wait"
  /\ UNCHANGED <<hasMessages, uploaded_files, event, prompt, locals, shown, exc>>

\* lines 32-35 and 150-159
RecvQuery ==
  \E o \in QueryOutcomes :
    /\ pc = "query_wait"
    /\ Recv("/query/", o)
    /\ response' = query_rag(o)
    /\ LET c == ChatReply(response')
       IN  /\ messages' = messages \o c.append
           /\ shown' = shown \o c.shown
           /\ exc' = c.exc
    /\ pc' = "done"
    /\ UNCHANGED <<hasMessages, uploaded_files, event, prompt,
                   api_status, api_ready, result, modes, selector, reqlog>>

Next ==
  \/ SelectFiles \/ ClickProcess \/ SubmitChat
  \/ InitSessionState
  \/ SendStatus \/ RecvStatus
  \/ SendUpload \/ RecvUpload
  \/ SendModes \/ RecvModes
  \/ ChatNotReady \/ ChatSendQuery \/ RecvQuery

Spec == Init /\ [][Next]_vars

(***************************************************************************)
(* The wrappers called directly, as a unit test with a stubbed network     *)
(* calls them: event names the function, uploaded_files is the argument of *)
(* upload_pdfs and answer what the stub will answer.                       *)
(***************************************************************************)
Wrappers == {"upload_pdfs", "query_rag", "check_api_status", "get_available_modes"}

Endpoint(fn) ==
  CASE fn = "upload_pdfs" -> "/upload_pdfs/"
    [] fn = "query_rag" -> "/query/"
    [] fn = "check_api_status" -> "/status/"
    [] OTHER -> "/modes/"

Outcomes(fn) ==
  CASE fn = "upload_pdfs" -> UploadOutcomes
    [] fn = "query_rag" -> QueryOutcomes
    [] fn = "check_api_status" -> StatusOutcomes
    [] OTHER -> ModesOutcomes

CallInit ==
  /\ messages = <<>> /\ hasMessages = FALSE
  /\ event \in Wrappers
  /\ uploaded_files \in IF event = "upload_pdfs"
                        THEN {NoneFiles} \cup {FileList(fs) : fs \in SUBSET Files}
                        ELSE {FileList({})}
  /\ answer \in Outcomes(event)
  /\ pc = "call" /\ prompt = ""
  /\ FreshRun

\* The wrapper runs up to its request; upload_pdfs returns before it
\* without files (lines 12-13).
CallSend ==
  /\ pc = "call"
  /\ LET u == upload_pdfs(uploaded_files, answer)
     IN  IF event = "upload_pdfs" /\ ~u.sent
         THEN /\ result' = u.res
              /\ pc' = "returned"
              /\ UNCHANGED <<inflight, reqlog, answer>>
         ELSE /\ Send(Endpoint(event))
              /\ pc' = "call_wait"
              /\ UNCHANGED result
  /\ UNCHANGED <<session, event, prompt, api_status, api_ready, modes, selector,
                 response, shown, exc>>

\* The request is answered and the wrapper returns.
CallReturn ==
  /\ pc = "call_wait"
  /\ Recv(Endpoint(event), answer)
  /\ result' = IF event = "upload_pdfs" THEN upload_pdfs(uploaded_files, answer).res ELSE result
  /\ response' = IF event = "query_rag" THEN query_rag(answer) ELSE response
  /\ api_status' = IF event = "check_api_status" THEN check_api_status(answer) ELSE api_status
  /\ modes' = IF event = "get_available_modes" THEN get_available_modes(answer) ELSE modes
  /\ exc' = IF event = "upload_pdfs" THEN result'.exc
            ELSE IF event = "query_rag" THEN response'.exc ELSE ""
  /\ pc' = "returned"
  /\ UNCHANGED <<session, event, prompt, api_ready, selector, reqlog, shown>>

CallNext == CallSend \/ CallReturn

SpecCalls == CallInit /\ [][CallNext]_vars

(***************************************************************************)
(* Properties.                                                             *)
(***************************************************************************)
Range(q) == {q[i] : i \in 1..Len(q)}
EndsWith(q, tail) ==
  /\ Len(q) >= Len(tail)
  /\ SubSeq(q, Len(q) - Len(tail) + 1, Len(q)) = tail
HasField(v, k) == v.type = "object" /\ k \in DOMAIN v.fields

\* The status call of this run failed or answered an object whose "status"
\* is not "ready".
NotReadyRun ==
  /\ api_status.type = "object"
  /\ ~(HasField(api_status, "status") /\ api_status.fields["status"] = JStr("ready"))

\* C1: a run that handles a chat submit while the system is not ready ends
\* with the user's entry and the fixed assistant entry "Upload and process
\* some PDFs broo!" at the end of the transcript, and no request to /query/.
C1_NotReadySubmitWarns ==
  (pc = "done" /\ event = "submit" /\ NotReadyRun) =>
    /\ EndsWith(messages, <<User(JStr(prompt)),
                            Assistant(JStr("Upload and process some PDFs broo!"))>>)
    /\ "/query/" \notin Range(reqlog)

\* C2: whatever the remote calls answer, no exception propagates out of the
\* script run.
C2_NoExceptionPropagates == exc = ""

\* C3 as stated: the run that handles a click or a submit, once it has
\* reached its end, has made exactly one network call.
C3_ExactlyOneCallPerAction ==
  (pc = "done" /\ exc = "" /\ event \in {"click", "submit"}) => Len(reqlog) = 1

Occurrences(q, x) == Cardinality({i \in 1..Len(q) : q[i] = x})

\* C3, amended: requests are made one at a time (never two in flight) and
\* at most once per endpoint in a run; /upload_pdfs/ is requested only in a
\* run that handles a click and /query/ only in one that handles a submit
\* with the system ready; a run that ends without an exception has called
\* /status/, then /upload_pdfs/ if it handles a click, then /modes/, then
\* /query/ if it handles a submit with the system ready.
C3_OneRequestAtATime ==
  /\ Cardinality(inflight) <= 1
  /\ \A e \in Range(reqlog) : Occurrences(reqlog, e) = 1
  /\ "/upload_pdfs/" \in Range(reqlog) => event = "click"
  /\ "/query/" \in Range(reqlog) => event = "submit" /\ api_ready
  /\ (pc = "done" /\ exc = "") =>
       reqlog = <<"/status/">>
                \o (IF event = "click" THEN <<"/upload_pdfs/">> ELSE <<>>)
                \o <<"/modes/">>
                \o (IF event = "submit" /\ api_ready THEN <<"/query/">> ELSE <<>>)

\* A run that handles a click has ended after its three calls.
C3_ClickRunMakesThreeCalls ==
  /\ pc = "done" /\ event = "click" /\ exc = ""
  /\ reqlog = <<"/status/", "/upload_pdfs/", "/modes/">>

IsError(s) == s.kind \in {"error", "warning"}

\* C4 as stated: every error or warning rendered in a run is also in the
\* transcript as an assistant entry.
C4_EveryShownErrorInTranscript ==
  \A i \in 1..Len(shown) :
    IsError(shown[i]) => \E j \in 1..Len(messages) : messages[j] = Assistant(shown[i].text)

\* C4, amended: every error or warning the chat handler renders (the query's
\* transport failure, the error the remote reports, the not-ready warning) is
\* appended to the transcript, in the same step, as the assistant entry with
\* that text; a run that handles a Process PDFs click renders the upload's
\* failure inline only and leaves the transcript as it is.
C4_ChatErrorsInTranscript ==
  [][ /\ (event' = "click" => messages' = messages)
      /\ (event' = "submit" /\ Len(shown') > Len(shown) /\ IsError(shown'[Len(shown')])) =>
           /\ Len(messages') > Len(messages)
           /\ messages'[Len(messages')] = Assistant(shown'[Len(shown')].text) ]_vars

\* A click run has rendered the upload error the remote reported, after one
\* exchange in the chat.
C4_UploadErrorInlineOnly ==
  /\ pc = "done" /\ event = "click"
  /\ Len(messages) = 2
  /\ \E i \in 1..Len(shown) : shown[i] = Shown("error", JStr("No PDFs processed"))

\* C5: when the system is ready and the result of the query has a
\* "response" field, the step that handles the result appends exactly one
\* entry, the assistant entry whose content is that field's value, right
\* after the user's own entry.
C5_ResponseAppended ==
  [][ (pc = "query_wait" /\ api_ready /\ HasField(response'.val, "response")) =>
        /\ EndsWith(messages, <<User(JStr(prompt))>>)
        /\ messages' = Append(messages, Assistant(response'.val.fields["response"]))
        /\ exc' = "" ]_vars

\* A ready submit whose result is {"response": null, ...} has been handled.
C5_NullResponseAppended ==
  /\ pc = "done" /\ event = "submit" /\ api_ready
  /\ HasField(response.val, "response") /\ response.val.fields["response"] = JNull
  /\ messages = <<User(JStr(prompt)), Assistant(JNull)>>

\* The text the error branch is to record for a result without "response".
ErrorText(v) ==
  IF HasField(v, "message") THEN "Error: " \o PyStr(v.fields["message"])
  ELSE "Error: Unknown error occurred"

\* C6: when the system is ready and the result of the query has no
\* "response" field, the run that handles the submit ends with the user's
\* entry and the assistant entry "Error: " plus the result's message, or
\* "Error: Unknown error occurred" without one.
C6_ErrorAppended ==
  (pc = "done" /\ event = "submit" /\ api_ready /\ "/query/" \in Range(reqlog)
     /\ ~HasField(response.val, "response")) =>
    EndsWith(messages, <<User(JStr(prompt)), Assistant(JStr(ErrorText(response.val)))>>)

\* C7: the transcript only grows at its end, and once initialised it is
\* never initialised again.
C7_AppendOnly ==
  [][ /\ Len(messages) <= Len(messages')
      /\ SubSeq(messages', 1, Len(messages)) = messages
      /\ (hasMessages => hasMessages') ]_vars

\* Two submits with different replies have been handled.
C7_TwoExchanges ==
  /\ pc = "done" /\ Len(messages) = 4
  /\ messages[2] # messages[4]

\* C8: upload_pdfs called with None or an empty list sends nothing and
\* returns {status: "error", message: "No files selected"}; called with
\* files, on a transport failure it returns the error result that carries
\* the failure's message and raises nothing.
C8_UploadWithoutFiles ==
  event = "upload_pdfs" =>
    /\ (uploaded_files.none \/ uploaded_files.names = {}) =>
         /\ reqlog = <<>> /\ inflight = {}
         /\ pc = "returned" =>
              result = Ok(JObj("status" :> JStr("error") @@ "message" :> JStr("No files selected")))
    /\ (pc = "returned" /\ uploaded_files.names # {} /\ answer.kind = "transport") =>
         /\ exc = ""
         /\ result = Ok(JObj("status" :> JStr("error")
                             @@ "message" :> JStr("API error: Connection refused")))

\* upload_pdfs(None) has returned.
C8_NoneReturnsError ==
  /\ pc = "returned" /\ event = "upload_pdfs" /\ uploaded_files.none
  /\ result.val.fields["message"] = JStr("No files selected")
  /\ reqlog = <<>>

BuiltinModeNames == <<"hybrid", "local", "global", "naive", "mix">>

\* C9: when the request to /modes/ fails (transport error, HTTP error
\* status, body that is not JSON), get_available_modes returns the five
\* built-in modes hybrid, local, global, naive, mix, in this order, with
\* default_mode "hybrid", and the selector offers them and preselects hybrid.
C9_ModesFallback ==
  (reqlog # <<>> /\ reqlog[Len(reqlog)] = "/modes/" /\ "/modes/" \notin inflight
     /\ answer \in {Transport, HttpError, Undecodable}) =>
    /\ HasField(modes, "available_modes") /\ HasField(modes, "default_mode")
    /\ modes.fields["default_mode"] = JStr("hybrid")
    /\ Len(modes.fields["available_modes"].items) = 5
    /\ \A i \in 1..5 :
         /\ HasField(modes.fields["available_modes"].items[i], "description")
         /\ HasField(modes.fields["available_modes"].items[i], "name")
         /\ modes.fields["available_modes"].items[i].fields["name"] = JStr(BuiltinModeNames[i])
    /\ selector.options = [i \in 1..5 |-> JStr(BuiltinModeNames[i])]
    /\ selector.index = 0
    /\ selector.selected = JStr("hybrid")
    /\ exc = ""

\* /modes/ answered an HTTP error status in a run that handles a submit.
C9_FallbackAfterHttpError ==
  /\ pc = "chat" /\ answer = HttpError
  /\ selector.selected = JStr("hybrid") /\ Len(selector.options) = 5

\* C10: after every script run the transcript alternates user, assistant,
\* user, assistant, ..., beginning with a user entry and of even length.
C10_TranscriptAlternates ==
  pc = "done" =>
    /\ Len(messages) % 2 = 0
    /\ \A i \in 1..Len(messages) :
         messages[i].role = IF i % 2 = 1 THEN "user" ELSE "assistant"
====
